---------------------------- MODULE Spec2Model ----------------------------
(***************************************************************************)
(* Chess vs. LLM: the move-negotiation protocol of generateMove            *)
(* (src/lib/chess-ai.ts 16-219), the orchestrator ChessGame                *)
(* (src/lib/chess-ai.ts 257-602), the board's onDrop                       *)
(* (src/components/game-timer.tsx 132-158) and the credential dialog       *)
(* (src/unnamed/part_000 45-66).                                           *)
(*                                                                         *)
(* The rules engine (chess.js) and the completion service are external.    *)
(* The engine is represented by a small finite graph of positions that     *)
(* offers every answer the orchestrator distinguishes: ordinary positions, *)
(* check, checkmate of either side, stalemate, insufficient material, the  *)
(* fifty-move draw, a promotion with two choices, and a cycle of knight     *)
(* moves that leads back to the initial position.  The                     *)
(* completion service is represented by the set Responses of everything    *)
(* it can hand back.                                                       *)
(*                                                                         *)
(* React state updates are taken to be rendered before the next event:     *)
(* one action is one event handler, promise continuation or timer          *)
(* callback, run to completion.                                            *)
(***************************************************************************)
EXTENDS Integers, Sequences, FiniteSets, TLC

\* ------------------------------------------------------------------ bounds
\* The clocks start at InitialTime seconds (600 in the source, scaled down).
InitialTime == 1
\* The human stops moving when the history could outgrow MaxHistory entries.
MaxHistory == 4
\* The human stops moving when MaxRequests model requests are outstanding.
MaxRequests == 2
\* A game played without clock ticks goes on until the history could outgrow
\* MaxQuietHistory entries.
MaxQuietHistory == 8
\* generateMove is given histories of up to MaxComposerHistory entries.
MaxComposerHistory == 8

\* ------------------------------------------------------ the rules engine
\* A serialized position (FEN) is the number of a node of the graph.
StartFen == 0
NoFen == -1
Fens == 0 .. 13

Mv(from, to, promotion, piece, captured, san, after) ==
  [from |-> from, to |-> to, promotion |-> promotion, piece |-> piece,
   captured |-> captured, san |-> san, after |-> after]

NoMove == Mv("none", "none", "none", "none", "none", "none", NoFen)

\* chess.moves({verbose: true}): the legal moves of a position.
MovesTable ==
  [f \in Fens |->
     CASE f = 0 -> {Mv("e2", "e4", "none", "p", "none", "e4", 1),
                    Mv("g1", "f3", "none", "n", "none", "Nf3", 2)}
       [] f = 1 -> {Mv("e7", "e5", "none", "p", "none", "e5", 3),
                    Mv("d8", "h4", "none", "q", "none", "Qh4+", 4)}
       [] f = 2 -> {Mv("g8", "f6", "none", "n", "none", "Nf6", 12),
                    Mv("d8", "h4", "none", "q", "none", "Qh4#", 5)}
       [] f = 3 -> {Mv("d1", "h5", "none", "q", "none", "Qh5#", 6),
                    Mv("f1", "b5", "none", "b", "none", "Bb5+", 7)}
       [] f = 4 -> {Mv("g2", "g3", "none", "p", "none", "g3", 8),
                    Mv("e1", "e2", "none", "k", "none", "Ke2", 9)}
       [] f = 7 -> {Mv("b2", "a1", "n", "p", "r", "bxa1=N", 10),
                    Mv("b2", "a1", "q", "p", "r", "bxa1=Q+", 11)}
       [] f = 11 -> {Mv("c2", "c3", "none", "p", "none", "c3", 2)}
       [] f = 12 -> {Mv("f3", "g1", "none", "n", "none", "Ng1", 13)}
       [] f = 13 -> {Mv("f6", "g8", "none", "n", "none", "Ng8", 0)}
       [] OTHER -> {}]

LegalMoves(fen) == MovesTable[fen]

AllMoves == UNION {MovesTable[f] : f \in Fens}

\* An engine that answers white to every turn() question.
TurnAlwaysWhite(fen) == "w"

\* chess.turn(): the side to move.
Turn(fen) == IF fen \in {0, 3, 4, 5, 10, 11, 12} THEN "w" ELSE "b"

\* An engine that never reports stalemate.
NeverStalemate(fen) == FALSE

IsCheckmate(fen) == fen \in {5, 6}
IsStalemate(fen) == fen = 8
IsInsufficientMaterial(fen) == fen = 10
IsDrawByFiftyMoves(fen) == fen = 9
\* chessRef.current.load(fen) and new Chess(fen) start from an empty position
\* history, so the engine has seen the position once and never three times.
IsThreefoldRepetition(fen) == FALSE
IsDraw(fen) ==
  \/ IsDrawByFiftyMoves(fen)
  \/ IsStalemate(fen)
  \/ IsInsufficientMaterial(fen)
  \/ IsThreefoldRepetition(fen)
IsCheck(fen) == fen \in {4, 5, 6, 7, 11}

\* chess.board() scanned for the king of `color`.
KingSquareOf(fen, color) ==
  IF color = "w" THEN (IF fen \in {9} THEN "e2" ELSE "e1") ELSE "e8"

\* chess.move({from, to, promotion}): the legal move it matches, or NoMove
\* when it throws "Invalid move".
EngineMove(fen, from, to, promotion) ==
  LET hits == {m \in LegalMoves(fen) :
                 /\ m.from = from
                 /\ m.to = to
                 /\ (m.promotion = "none" \/ m.promotion = promotion)}
  IN IF hits = {} THEN NoMove ELSE CHOOSE m \in hits : TRUE

\* ------------------------------------------------- the completion service
\* An error message is represented by the set of the substrings it holds
\* among those the handlers search for with message.includes(...).
AuthMarkers == {"API key", "authentication", "auth", "401", "403"}

IsAuthMessage(message) == message \cap AuthMarkers # {}

\* The markers a string of the model contains as a substring.
MarkersOf(s) ==
  CASE s = "auth" -> {"auth"}
    [] s = "a401" -> {"401"}
    [] OTHER -> {}

LLMReasoning == "llm reasoning"
FallbackReasoning == "Random move (AI generation failed)"

\* The {from, to, promotion} objects a schema-valid response may carry: every
\* legal move of the graph, a promotion given for a move that is none, a
\* promotion left out, a blocked move, and squares that are no squares.
LLMMoves ==
  {[from |-> m.from, to |-> m.to, promotion |-> m.promotion] :
     m \in UNION {MovesTable[f] : f \in {1, 2, 7}}}
    \cup {[from |-> "e7", to |-> "e5", promotion |-> "q"],
          [from |-> "b2", to |-> "a1", promotion |-> "none"],
          [from |-> "e2", to |-> "e5", promotion |-> "none"],
          [from |-> "auth", to |-> "e5", promotion |-> "none"]}

Resp(kind, message, move) == [kind |-> kind, message |-> message, move |-> move]

NoLLMMove == [from |-> "none", to |-> "none", promotion |-> "none"]

\* What generateText can do: reject (transport failure, with or without an
\* authentication marker in its message), or resolve with a text that is not
\* JSON (the SyntaxError message may quote the text), JSON of another shape
\* (ZodError), or JSON of the schema's shape.
Responses ==
  {Resp("reject", {}, NoLLMMove), Resp("reject", {"401"}, NoLLMMove),
   Resp("garbage", {}, NoLLMMove), Resp("garbage", {"auth"}, NoLLMMove),
   Resp("badschema", {}, NoLLMMove)}
    \cup {Resp("move", {}, mv) : mv \in LLMMoves}

\* ----------------------------------------------------------- generateMove
Returned(fen, move, reasoning) ==
  [thrown |-> FALSE, message |-> {}, fen |-> fen, move |-> move,
   reasoning |-> reasoning]

Thrown(message) ==
  [thrown |-> TRUE, message |-> message, fen |-> NoFen, move |-> NoMove,
   reasoning |-> "none"]

\* TryGenerate with the answer matched against the moves of every position
\* instead of the legal moves of fen.
TryGenerateAnyPosition(fen, resp) ==
  CASE resp.kind \in {"reject", "garbage"} -> Thrown(resp.message)
    [] resp.kind = "badschema" -> Thrown({})
    [] OTHER ->
         LET hits == {m \in AllMoves : /\ m.from = resp.move.from
                                       /\ m.to = resp.move.to}
         IN IF hits = {} THEN Thrown({})
            ELSE LET result == CHOOSE m \in hits : TRUE
                 IN Returned(result.after, result, LLMReasoning)

\* The try block: the response parsed, validated and played on the engine.
TryGenerate(fen, resp) ==
  CASE resp.kind = "reject" -> Thrown(resp.message)
    [] resp.kind = "garbage" -> Thrown(resp.message)
    [] resp.kind = "badschema" -> Thrown({})
    [] OTHER ->
         LET result == EngineMove(fen, resp.move.from, resp.move.to,
                                  resp.move.promotion)
         IN IF result = NoMove
              THEN Thrown(MarkersOf(resp.move.from) \cup MarkersOf(resp.move.to)
                            \cup MarkersOf(resp.move.promotion))
              ELSE Returned(result.after, result, LLMReasoning)

\* The catch block: an authentication message is rethrown, anything else is
\* replaced by legalMoves[floor(random * length)], here randomMove.
CatchGenerate(fen, error, randomMove) ==
  IF IsAuthMessage(error.message)
    THEN Thrown({"API key"})
    ELSE IF LegalMoves(fen) # {}
           THEN Returned(randomMove.after, randomMove, FallbackReasoning)
           ELSE Thrown({})

\* generateMove after its two early throws, from the response on.
GenerateMove(fen, resp, randomMove) ==
  LET attempt == TryGenerate(fen, resp)
  IN IF attempt.thrown THEN CatchGenerate(fen, attempt, randomMove)
                       ELSE attempt

\* generateMove up to the request: "thrown" when it throws before sending.
GenerateMoveEntry(fen, key) ==
  IF key = <<>> THEN Thrown({"API key"})
  ELSE IF LegalMoves(fen) = {} THEN Thrown({})
  ELSE Returned(fen, NoMove, "none")

\* ------------------------------------------------------------------ state
VARIABLES
  gameState,           \* useState<GameState>
  playerTime,          \* useState(600)
  aiTime,              \* useState(600)
  isThinking,          \* useState(false)
  moveHistory,         \* useState<ChessMove[]>([])
  apiKey,              \* useState(""): a sequence of characters
  selectedModel,       \* useState("gpt-4")
  isApiKeyModalOpen,   \* useState(false)
  requests,            \* the handleMove calls suspended in generateMove
  timers,              \* the setTimeout(..., 800) callbacks not yet run, in
                       \* the order they were set
  last                 \* history variable: the handler that ran last and
                       \* the generateMove calls it made

vars == <<gameState, playerTime, aiTime, isThinking, moveHistory,
          apiKey, selectedModel, isApiKeyModalOpen, requests, timers, last>>

GS(fen, isPlayerTurn, gameStatus, result, resultReason, inCheck, checkSquare) ==
  [fen |-> fen, isPlayerTurn |-> isPlayerTurn, gameStatus |-> gameStatus,
   result |-> result, resultReason |-> resultReason, inCheck |-> inCheck,
   checkSquare |-> checkSquare]

\* {...prev, ...partial}: the fields of partial override those of prev.
Merge(prev, partial) ==
  LET pick(k) == IF k \in DOMAIN partial THEN partial[k] ELSE prev[k]
  IN GS(pick("fen"), pick("isPlayerTurn"), pick("gameStatus"), pick("result"),
        pick("resultReason"), pick("inCheck"), pick("checkSquare"))

\* A scan that stops at the white king whatever the colour asked for.
findKingSquareOfWhite(fen, color) == KingSquareOf(fen, "w")

findKingSquare(fen, color) == KingSquareOf(fen, color)

\* checkGameStatus(chess) for the engine holding position fen: a partial
\* GameState.
checkGameStatus(fen) ==
  IF IsCheckmate(fen) THEN
    [gameStatus |-> "ended",
     result |-> IF Turn(fen) = "w" THEN "ai" ELSE "player",
     resultReason |-> "checkmate", inCheck |-> TRUE,
     checkSquare |-> findKingSquare(fen, Turn(fen))]
  ELSE IF IsStalemate(fen) THEN
    [gameStatus |-> "ended", result |-> "draw", resultReason |-> "stalemate",
     inCheck |-> FALSE, checkSquare |-> "null"]
  ELSE IF IsInsufficientMaterial(fen) THEN
    [gameStatus |-> "ended", result |-> "draw", resultReason |-> "insufficient",
     inCheck |-> FALSE, checkSquare |-> "null"]
  ELSE IF IsThreefoldRepetition(fen) THEN
    [gameStatus |-> "ended", result |-> "draw", resultReason |-> "repetition",
     inCheck |-> FALSE, checkSquare |-> "null"]
  ELSE IF IsDraw(fen) THEN
    [gameStatus |-> "ended", result |-> "draw", resultReason |-> "fifty-move",
     inCheck |-> FALSE, checkSquare |-> "null"]
  ELSE IF IsCheck(fen) THEN
    [gameStatus |-> "playing", inCheck |-> TRUE,
     checkSquare |-> findKingSquare(fen, Turn(fen))]
  ELSE
    [gameStatus |-> "playing", inCheck |-> FALSE, checkSquare |-> "null"]

\* An entry that does not record the position.
EntryWithoutPosition(player, move, fen, reasoning) ==
  [san |-> move.san, player |-> player, fen |-> NoFen, piece |-> move.piece,
   from |-> move.from, to |-> move.to, captured |-> move.captured,
   reasoning |-> reasoning]

\* A ChessMove of the history.
Entry(player, move, fen, reasoning) ==
  [san |-> move.san, player |-> player, fen |-> fen, piece |-> move.piece,
   from |-> move.from, to |-> move.to, captured |-> move.captured,
   reasoning |-> reasoning]

InitialGameState(gameStatus) ==
  GS(StartFen, TRUE, gameStatus, "null", "null", FALSE, "null")

Init ==
  /\ gameState = InitialGameState("waiting")
  /\ playerTime = InitialTime
  /\ aiTime = InitialTime
  /\ isThinking = FALSE
  /\ moveHistory = <<>>
  /\ apiKey = <<>>
  /\ selectedModel = "gpt-4"
  /\ isApiKeyModalOpen = FALSE
  /\ requests = <<>>
  /\ timers = <<>>
  /\ last = [op |-> "init"]

\* ---------------------------------------------------------------- startGame
MarkStale(calls) == [i \in DOMAIN calls |-> [calls[i] EXCEPT !.stale = TRUE]]

\* A startGame that leaves the clocks as they are.
ResetGameKeepingClocks ==
  /\ gameState' = InitialGameState("playing")
  /\ UNCHANGED <<playerTime, aiTime>>
  /\ moveHistory' = <<>>
  /\ requests' = MarkStale(requests)
  /\ timers' = MarkStale(timers)

\* The state startGame sets once it has a key.  A handleMove call that is
\* suspended stays suspended; `stale` records that it was made before this
\* restart (a history field, read by no action).
ResetGame ==
  /\ gameState' = InitialGameState("playing")
  /\ playerTime' = InitialTime
  /\ aiTime' = InitialTime
  /\ moveHistory' = <<>>
  /\ requests' = MarkStale(requests)
  /\ timers' = MarkStale(timers)

GameVars == <<gameState, playerTime, aiTime, moveHistory, requests,
              timers>>

\* Start Game, Play Again and Restart Game all call startGame.
startGame ==
  IF apiKey = <<>>
    THEN /\ isApiKeyModalOpen' = TRUE
         /\ last' = [op |-> "startGame: no key"]
         /\ UNCHANGED <<GameVars, isThinking, apiKey, selectedModel>>
    ELSE /\ ResetGame
         /\ last' = [op |-> "startGame"]
         /\ UNCHANGED <<isThinking, apiKey, selectedModel, isApiKeyModalOpen>>

\* ------------------------------------------------------- credential dialog
KeyPrefix == <<"s", "k", "-">>

KeyInputs ==
  {<<>>, <<" ">>, <<"s", "k", "-", "x">>, <<"s", "k", "-", "x", " ">>,
   <<" ", "s", "k", "-", "x">>, <<"x", "s", "k", "-">>}

RECURSIVE TrimStart(_)
TrimStart(s) ==
  IF s # <<>> /\ Head(s) = " " THEN TrimStart(Tail(s)) ELSE s

RECURSIVE TrimEnd(_)
TrimEnd(s) ==
  IF s # <<>> /\ s[Len(s)] = " " THEN TrimEnd(SubSeq(s, 1, Len(s) - 1)) ELSE s

Trim(s) == TrimEnd(TrimStart(s))

\* A prefix test that every string passes.
StartsWithAnything(s, prefix) == TRUE

StartsWith(s, prefix) ==
  Len(s) >= Len(prefix) /\ SubSeq(s, 1, Len(prefix)) = prefix

\* handleApiKeySubmit(key, model), followed by the dialog's onClose().  The
\* startGame it calls is the one of the render that built the handler: it
\* reads the apiKey of that render, not the key being stored.
handleApiKeySubmit(key, model) ==
  /\ apiKey' = key
  /\ selectedModel' = model
  /\ isApiKeyModalOpen' = FALSE
  /\ IF gameState.gameStatus = "waiting" /\ apiKey # <<>>
       THEN ResetGame
       ELSE UNCHANGED GameVars
  /\ UNCHANGED isThinking

\* The model picked from the dialog's list.
ModelInputs == {"gpt-4o"}

\* The dialog's handleSubmit with `key` typed in and `model` selected.
handleSubmit(key, model) ==
  /\ isApiKeyModalOpen
  /\ IF key = <<>> \/ Trim(key) = <<>> \/ ~StartsWith(key, KeyPrefix)
       THEN /\ last' = [op |-> "handleSubmit: invalid key"]
            /\ UNCHANGED <<GameVars, isThinking, apiKey, selectedModel,
                           isApiKeyModalOpen>>
       ELSE /\ handleApiKeySubmit(Trim(key), model)
            /\ last' = [op |-> "handleSubmit"]

\* The key button of the header.
openApiKeyModal ==
  /\ ~isApiKeyModalOpen
  /\ isApiKeyModalOpen' = TRUE
  /\ last' = [op |-> "openApiKeyModal"]
  /\ UNCHANGED <<GameVars, isThinking, apiKey, selectedModel>>

\* onClose of the dialog, when it is dismissed.
closeApiKeyModal ==
  /\ isApiKeyModalOpen
  /\ isApiKeyModalOpen' = FALSE
  /\ last' = [op |-> "closeApiKeyModal"]
  /\ UNCHANGED <<GameVars, isThinking, apiKey, selectedModel>>

\* ------------------------------------------------------ handleMove, onDrop
Call(fen) == [fen |-> fen, stale |-> FALSE]

\* A call that stays suspended after it has been resumed.
KeepAll(seq, i) == seq

Remove(seq, i) == SubSeq(seq, 1, i - 1) \o SubSeq(seq, i + 1, Len(seq))

\* The arguments of the generateMove calls handleMove(newFen, move) makes:
\* none when the human's move ended the game, else one call with the new
\* position and moveHistory, the history of the render that built
\* handleMove.
GenerateMoveArgs(fen, history) == [fen |-> fen, history |-> history]

HandleMoveCalls(newFen) ==
  IF checkGameStatus(newFen).gameStatus = "ended"
    THEN <<>>
    ELSE <<GenerateMoveArgs(newFen, moveHistory)>>

\* handleMove(newFen, move) up to its await.
handleMove(newFen, move) ==
  LET statusAfterPlayerMove == checkGameStatus(newFen)
      entry == GenerateMoveEntry(newFen, apiKey)
  IN /\ gameState' = Merge(Merge(gameState,
                                 [fen |-> newFen, isPlayerTurn |-> FALSE]),
                           statusAfterPlayerMove)
     /\ moveHistory' = Append(moveHistory, Entry("You", move, newFen, "none"))
     /\ IF statusAfterPlayerMove.gameStatus = "ended"
          THEN UNCHANGED <<isThinking, requests, isApiKeyModalOpen>>
          ELSE IF entry.thrown
                 THEN /\ isThinking' = FALSE
                      /\ isApiKeyModalOpen' =
                           (isApiKeyModalOpen \/ IsAuthMessage(entry.message))
                      /\ UNCHANGED requests
                 ELSE /\ isThinking' = TRUE
                      /\ requests' = Append(requests, Call(newFen))
                      /\ UNCHANGED isApiKeyModalOpen
     /\ UNCHANGED <<playerTime, aiTime, apiKey, selectedModel, timers>>

\* The prop without the status conjunct.
BoardIsPlayerTurnOnly == gameState.isPlayerTurn

\* The isPlayerTurn prop the board is rendered with.
BoardIsPlayerTurn ==
  gameState.isPlayerTurn /\ gameState.gameStatus = "playing"

\* Within the bounds of the model the human goes on moving.
WithinBounds ==
  /\ Len(requests) + Len(timers) < MaxRequests
  /\ Len(moveHistory) + Len(requests) + Len(timers) + 2 <= MaxHistory

\* Within the bounds of a game without ticks and restarts the human goes on
\* moving, one request at a time.
WithinQuietBounds ==
  /\ requests = <<>>
  /\ timers = <<>>
  /\ Len(moveHistory) + 2 <= MaxQuietHistory

Drops ==
  {<<m.from, m.to>> : m \in AllMoves} \cup {<<"e2", "e5">>}

\* onDrop without the check of the move the engine returned.
onDropUnchecked(sourceSquare, targetSquare) ==
  LET move == EngineMove(gameState.fen, sourceSquare, targetSquare, "q")
  IN IF ~BoardIsPlayerTurn
       THEN /\ last' = [op |-> "onDrop: not the player's turn"]
            /\ UNCHANGED <<GameVars, isThinking, apiKey, selectedModel,
                           isApiKeyModalOpen>>
       ELSE /\ handleMove(IF move = NoMove THEN gameState.fen ELSE move.after,
                          move)
            /\ last' = [op |-> "onDrop: accepted",
                        calls |-> HandleMoveCalls(IF move = NoMove
                                                    THEN gameState.fen
                                                    ELSE move.after)]

\* onDrop(sourceSquare, targetSquare) of the board, whose game is the engine
\* loaded with the fen prop.
onDrop(sourceSquare, targetSquare) ==
  LET move == EngineMove(gameState.fen, sourceSquare, targetSquare, "q")
  IN IF ~BoardIsPlayerTurn
       THEN /\ last' = [op |-> "onDrop: not the player's turn"]
            /\ UNCHANGED <<GameVars, isThinking, apiKey, selectedModel,
                           isApiKeyModalOpen>>
       ELSE IF move = NoMove
         THEN /\ last' = [op |-> "onDrop: illegal"]
              /\ UNCHANGED <<GameVars, isThinking, apiKey, selectedModel,
                           isApiKeyModalOpen>>
         ELSE /\ handleMove(move.after, move)
              /\ last' = [op |-> "onDrop: accepted",
                          calls |-> HandleMoveCalls(move.after)]

\* generateMove settles for the i-th suspended handleMove: the service
\* answered resp, and randomMove is what the fallback would draw.
completion(i, resp, randomMove) ==
  LET call == requests[i]
      aiMove == GenerateMove(call.fen, resp, randomMove)
  IN /\ requests' = Remove(requests, i)
     /\ IF aiMove.thrown
          THEN /\ isThinking' = FALSE
               /\ isApiKeyModalOpen' =
                    (isApiKeyModalOpen \/ IsAuthMessage(aiMove.message))
               /\ last' = [op |-> "completion: threw"]
               /\ UNCHANGED timers
          ELSE /\ timers' = Append(timers,
                    [aiMove |-> aiMove,
                     statusAfterAIMove |-> checkGameStatus(aiMove.fen),
                     fen |-> call.fen, stale |-> call.stale])
               /\ last' = [op |-> "completion: returned"]
               /\ UNCHANGED <<isThinking, isApiKeyModalOpen>>
     /\ UNCHANGED <<gameState, playerTime, aiTime, moveHistory, apiKey,
                    selectedModel>>

\* The timer callback writing the history from the moveHistory of the render
\* handleMove was called in, which lacks the entry of the human move.
applyAIMoveFromClosure ==
  /\ timers # <<>>
  /\ LET t == Head(timers)
     IN /\ gameState' = Merge(Merge(gameState,
                                    [fen |-> t.aiMove.fen,
                                     isPlayerTurn |-> TRUE]),
                              t.statusAfterAIMove)
        /\ moveHistory' = Append(SubSeq(moveHistory, 1, Len(moveHistory) - 1),
                                 Entry("AI", t.aiMove.move, t.aiMove.fen,
                                       t.aiMove.reasoning))
  /\ isThinking' = FALSE
  /\ timers' = Tail(timers)
  /\ last' = [op |-> "applyAIMove"]
  /\ UNCHANGED <<playerTime, aiTime, apiKey, selectedModel, isApiKeyModalOpen,
                 requests>>

\* The callback of setTimeout(..., 800) set first.
applyAIMove ==
  /\ timers # <<>>
  /\ LET t == Head(timers)
     IN /\ gameState' = Merge(Merge(gameState,
                                    [fen |-> t.aiMove.fen,
                                     isPlayerTurn |-> TRUE]),
                              t.statusAfterAIMove)
        /\ moveHistory' = Append(moveHistory,
                                 Entry("AI", t.aiMove.move, t.aiMove.fen,
                                       t.aiMove.reasoning))
  /\ isThinking' = FALSE
  /\ timers' = Tail(timers)
  /\ last' = [op |-> "applyAIMove"]
  /\ UNCHANGED <<playerTime, aiTime, apiKey, selectedModel, isApiKeyModalOpen,
                 requests>>

\* ------------------------------------------------------------------ clocks
Expired(winner) ==
  Merge(gameState, [gameStatus |-> "ended", result |-> winner,
                    resultReason |-> "time"])

\* The callback of playerInterval.
playerTick ==
  /\ gameState.gameStatus = "playing"
  /\ gameState.isPlayerTurn
  /\ IF playerTime <= 0
       THEN /\ gameState' = Expired("ai")
            /\ playerTime' = 0
            /\ last' = [op |-> "playerTick: expired"]
       ELSE /\ playerTime' = playerTime - 1
            /\ last' = [op |-> "playerTick"]
            /\ UNCHANGED gameState
  /\ UNCHANGED <<aiTime, isThinking, moveHistory, apiKey, selectedModel,
                 isApiKeyModalOpen, requests, timers>>

\* The callback of aiInterval.
aiTick ==
  /\ gameState.gameStatus = "playing"
  /\ ~gameState.isPlayerTurn
  /\ IF aiTime <= 0
       THEN /\ gameState' = Expired("player")
            /\ aiTime' = 0
            /\ last' = [op |-> "aiTick: expired"]
       ELSE /\ aiTime' = aiTime - 1
            /\ last' = [op |-> "aiTick"]
            /\ UNCHANGED gameState
  /\ UNCHANGED <<playerTime, isThinking, moveHistory, apiKey, selectedModel,
                 isApiKeyModalOpen, requests, timers>>

\* ------------------------------------------------------------ specification
Next ==
  \/ startGame
  \/ \E key \in KeyInputs, model \in ModelInputs : handleSubmit(key, model)
  \/ openApiKeyModal
  \/ closeApiKeyModal
  \/ \E d \in Drops : (BoardIsPlayerTurn => WithinBounds) /\ onDrop(d[1], d[2])
  \/ \E i \in DOMAIN requests, resp \in Responses :
       \E randomMove \in LegalMoves(requests[i].fen) :
         completion(i, resp, randomMove)
  \/ applyAIMove
  \/ playerTick
  \/ aiTick

Spec == Init /\ [][Next]_vars

\* The completion service answers every request and timers fire: the
\* scheduling the browser's event loop gives the promise continuation, the
\* 800 ms timeout and the two one-second intervals.
Fairness ==
  /\ WF_vars(\E i \in DOMAIN requests, resp \in Responses :
               \E randomMove \in LegalMoves(requests[i].fen) :
                 completion(i, resp, randomMove))
  /\ WF_vars(applyAIMove)
  /\ WF_vars(playerTick)
  /\ WF_vars(aiTick)

LiveSpec == Spec /\ Fairness

\* Games played through without a clock tick and without a restart in the
\* middle: the behaviours of the program in which the human starts a game
\* when none is being played and answers each model move before a second has
\* passed.
QuietNext ==
  \/ gameState.gameStatus # "playing" /\ startGame
  \/ \E key \in KeyInputs, model \in ModelInputs : handleSubmit(key, model)
  \/ \E d \in Drops :
       (BoardIsPlayerTurn => WithinQuietBounds) /\ onDrop(d[1], d[2])
  \/ \E i \in DOMAIN requests, resp \in Responses :
       \E randomMove \in LegalMoves(requests[i].fen) :
         completion(i, resp, randomMove)
  \/ applyAIMove

QuietSpec == Init /\ [][QuietNext]_vars

\* ---------------------------------------------- the prompt of generateMove
\* moveHistory.slice(-7)
WindowSize == 7

RecentMoves(moveHistoryArg) ==
  SubSeq(moveHistoryArg,
         IF Len(moveHistoryArg) > WindowSize
           THEN Len(moveHistoryArg) - WindowSize + 1 ELSE 1,
         Len(moveHistoryArg))

\* The number printed before the entry at `index` (counted from 0) of the
\* window.
FormattedMoveNumber(moveHistoryArg, index) ==
  (index \div 2)
    + ((Len(moveHistoryArg) - Len(RecentMoves(moveHistoryArg))) \div 2)
    + 1

\* recentMoves.filter((m) => m.player === "You").length
HumanMoves(recentMoves) ==
  Cardinality({i \in DOMAIN recentMoves : recentMoves[i].player = "You"})

\* recentMoves.filter((m) => m.player === "You" && m.piece === piece).length
HumanMovesOf(recentMoves, piece) ==
  Cardinality({i \in DOMAIN recentMoves :
                 recentMoves[i].player = "You" /\ recentMoves[i].piece = piece})

\* The commentary with the knights asked for first.
TendencyKnightFirst(recentMoves) ==
  IF Len(recentMoves) >= 2
    THEN IF HumanMoves(recentMoves) >= 2
           THEN IF HumanMovesOf(recentMoves, "n") >= 2
                  THEN "favor knight development"
                ELSE IF HumanMovesOf(recentMoves, "p") >= 2
                  THEN "favor pawn moves"
                ELSE IF HumanMovesOf(recentMoves, "b") >= 2
                  THEN "favor bishop development"
                ELSE "favor piece development"
           ELSE "play aggressively"
    ELSE "This is early in the game"

\* What follows "The human player tends to " in the prompt, or the sentence
\* that stands in its place.
Tendency(recentMoves) ==
  IF Len(recentMoves) >= 2
    THEN IF HumanMoves(recentMoves) >= 2
           THEN IF HumanMovesOf(recentMoves, "p") >= 2
                  THEN "favor pawn moves"
                ELSE IF HumanMovesOf(recentMoves, "n") >= 2
                  THEN "favor knight development"
                ELSE IF HumanMovesOf(recentMoves, "b") >= 2
                  THEN "favor bishop development"
                ELSE "favor piece development"
           ELSE "play aggressively"
    ELSE "This is early in the game"

\* generateMove is exported and composes its prompt from whatever history it
\* is given: histories of pawn, knight and bishop moves of the human and
\* moves of the model, in every order.
ComposerEntries ==
  {Entry("You", m, m.after, "none") :
     m \in {m \in AllMoves : m.san \in {"e4", "Nf3", "Bb5+"}}}
    \cup {Entry("AI", m, m.after, LLMReasoning) :
            m \in {m \in AllMoves : m.san = "e5"}}

ComposerHistories ==
  UNION {[1 .. n -> ComposerEntries] : n \in 0 .. MaxComposerHistory}

ComposerInit ==
  /\ gameState = InitialGameState("playing")
  /\ playerTime = InitialTime
  /\ aiTime = InitialTime
  /\ isThinking = FALSE
  /\ moveHistory \in ComposerHistories
  /\ apiKey = KeyPrefix
  /\ selectedModel = "gpt-4"
  /\ isApiKeyModalOpen = FALSE
  /\ requests = <<>>
  /\ timers = <<>>
  /\ last = [op |-> "init"]

\* generateMove(fen, moveHistory, apiKey, selectedModel) composes its prompt.
composePrompt ==
  /\ last.op = "init"
  /\ last' = [op |-> "generateMove",
              calls |-> <<GenerateMoveArgs(gameState.fen, moveHistory)>>]
  /\ UNCHANGED <<GameVars, isThinking, apiKey, selectedModel,
                 isApiKeyModalOpen>>

ComposerNext == composePrompt

ComposerSpec == ComposerInit /\ [][ComposerNext]_vars

\* ------------------------------------------------------------------ claims
Outstanding == Len(requests) + Len(timers)

\* C1: whatever the completion service returns, the move applied for the AI
\* is one of the legal moves of the position generateMove was called with,
\* the position set is the result of exactly that move, and the history
\* entry records that move.
C1_AppliedMoveIsLegal ==
  [][applyAIMove =>
       \E m \in LegalMoves(Head(timers).fen) :
         /\ gameState'.fen = m.after
         /\ moveHistory'[Len(moveHistory')] =
              Entry("AI", m, m.after, Head(timers).aiMove.reasoning)]_vars

\* C1 witness: a fallback move and a move of the model have been applied.
C1_Witness ==
  /\ last.op = "applyAIMove"
  /\ Len(moveHistory) >= 4
  /\ moveHistory[2].reasoning = FallbackReasoning
  /\ moveHistory[4].reasoning = LLMReasoning

\* C2: when the AI clock expires with a request outstanding, the status
\* becomes ended with reason time, and the result of that request, applied
\* later, changes neither the game state nor the history.
C2_LateCompletionDiscarded ==
  [][/\ (aiTick /\ aiTime <= 0) =>
          (gameState'.gameStatus = "ended" /\ gameState'.resultReason = "time")
     /\ (/\ applyAIMove
         /\ ~Head(timers).stale
         /\ gameState.gameStatus = "ended"
         /\ gameState.resultReason = "time")
          => UNCHANGED <<gameState, moveHistory>>]_vars

\* C3: once the status is ended it stays ended in every step that is not
\* startGame.
C3_EndedIsTerminal ==
  [][(gameState.gameStatus = "ended" /\ last'.op # "startGame")
       => gameState'.gameStatus = "ended"]_vars

\* C4: result is non-null exactly when the status is ended, and resultReason
\* is non-null exactly when result is.
C4_ResultIffEnded ==
  /\ (gameState.result # "null") <=> (gameState.gameStatus = "ended")
  /\ (gameState.resultReason # "null") <=> (gameState.result # "null")

\* C5: when the completion call fails with an authentication error, the
\* credential dialog opens and the turn is still resolved by the fallback: a
\* legal move is scheduled for application.
C5_AuthFailureStillFallsBack ==
  [][\A i \in DOMAIN requests, resp \in Responses :
       \A randomMove \in LegalMoves(requests[i].fen) :
         (/\ completion(i, resp, randomMove)
          /\ resp.kind = "reject"
          /\ IsAuthMessage(resp.message))
           => /\ isApiKeyModalOpen'
              /\ Len(timers') = Len(timers) + 1
              /\ timers'[Len(timers')].aiMove.move \in
                   LegalMoves(requests[i].fen)]_vars

\* C6: after an accepted human move that leaves the game playing,
\* eventually a model move has been applied and it is the human's turn, or
\* the status is ended.
RequestIssued ==
  last.op = "onDrop: accepted" /\ gameState.gameStatus = "playing"

ModelMoved == last.op = "applyAIMove" /\ gameState.isPlayerTurn

C6_NeverStuckOnModel ==
  RequestIssued ~> (ModelMoved \/ gameState.gameStatus = "ended")

\* C7: while a model request or its delayed application is outstanding, no
\* human move is accepted and no second request is issued.
C7_OneTransitionInFlight ==
  [][Outstanding > 0 =>
       (last'.op # "onDrop: accepted" /\ Len(requests') <= Len(requests))]_vars

\* C8: the result of a request issued before a restart changes neither the
\* game state nor the history of the new game.
C8_StaleCompletionRejected ==
  [][(applyAIMove /\ Head(timers).stale)
       => UNCHANGED <<gameState, moveHistory>>]_vars

\* C9: leaving restarts aside, the turn changes exactly in the steps that
\* apply a half-move: an accepted human move gives the turn to the AI and an
\* applied model move gives it back to the player.
C9_TurnTogglesPerHalfMove ==
  [][last'.op \notin {"startGame", "handleSubmit"} =>
       /\ (gameState'.isPlayerTurn # gameState.isPlayerTurn)
            <=> (last'.op \in {"onDrop: accepted", "applyAIMove"})
       /\ last'.op = "onDrop: accepted" => ~gameState'.isPlayerTurn
       /\ last'.op = "applyAIMove" => gameState'.isPlayerTurn]_vars

\* C10: a drop that is no legal move of the current position is rejected and
\* changes nothing: game state, history, clocks, thinking flag, and no
\* request is issued.
IsLegalDrop(from, to) ==
  \E m \in LegalMoves(gameState.fen) : m.from = from /\ m.to = to

C10_IllegalDropRejected ==
  [][\A d \in Drops :
       (onDrop(d[1], d[2]) /\ ~IsLegalDrop(d[1], d[2]))
         => /\ UNCHANGED <<gameState, moveHistory, playerTime, aiTime,
                           isThinking, requests, timers>>
            /\ last'.op # "onDrop: accepted"]_vars

\* C10 witness: on the player's turn a drop was rejected as illegal.
C10_Witness ==
  /\ last.op = "onDrop: illegal"
  /\ BoardIsPlayerTurn
  /\ Len(moveHistory) = 2


\* Steps that run startGame: the Start and Restart buttons, and a submitted
\* key.
ResetOps == {"startGame", "handleSubmit"}

TickOps == {"playerTick", "aiTick", "playerTick: expired", "aiTick: expired"}

\* C11: the history is append-only with one entry per applied half-move: an
\* accepted human move and an applied model move each append exactly one
\* entry and keep the entries there were, a step that runs startGame leaves
\* the history or empties it, and no other step changes it; the first human
\* move of a game leaves one entry and the turn with the AI.
C11_HistoryAppendOnly ==
  [][/\ last'.op \in {"onDrop: accepted", "applyAIMove"} =>
          /\ Len(moveHistory') = Len(moveHistory) + 1
          /\ SubSeq(moveHistory', 1, Len(moveHistory)) = moveHistory
          /\ moveHistory'[Len(moveHistory')].player =
               (IF last'.op = "applyAIMove" THEN "AI" ELSE "You")
     /\ last'.op \in ResetOps =>
          (moveHistory' = <<>> \/ moveHistory' = moveHistory)
     /\ last'.op \notin {"onDrop: accepted", "applyAIMove"} \cup ResetOps =>
          moveHistory' = moveHistory
     /\ (last'.op = "onDrop: accepted" /\ moveHistory = <<>>) =>
          (Len(moveHistory') = 1 /\ ~gameState'.isPlayerTurn)]_vars

\* C11 witness: a human move and then a model move have been appended.
C11_Witness ==
  /\ last.op = "applyAIMove"
  /\ Len(moveHistory) = 2
  /\ moveHistory[1].player = "You"
  /\ moveHistory[2].player = "AI"

\* C12: while the status is playing, a clock tick takes one second off the
\* counter of the side to move and leaves the other counter alone; with a
\* model request outstanding that counter is the AI's.
C12_TickDecrementsSideToMove ==
  [][(last'.op \in TickOps /\ gameState.gameStatus = "playing") =>
       /\ IF gameState.isPlayerTurn
            THEN playerTime' = playerTime - 1 /\ aiTime' = aiTime
            ELSE aiTime' = aiTime - 1 /\ playerTime' = playerTime
       /\ requests # <<>> =>
            (aiTime' = aiTime - 1 /\ playerTime' = playerTime)]_vars

\* Every step that sets the status to ended sets a result, and only the
\* reset of startGame clears it: the status has been ended in this game
\* exactly when the result is set.
HasEnded == gameState.result # "null"

\* C13: once the status has been ended, neither counter changes until
\* startGame resets them.
C13_ClocksFrozenAfterEnd ==
  [][(HasEnded /\ last'.op \notin ResetOps)
       => UNCHANGED <<playerTime, aiTime>>]_vars

\* C14: no counter is 0 while the status is playing.
C14_ExpiryIsImmediate ==
  gameState.gameStatus = "playing" => (playerTime # 0 /\ aiTime # 0)

\* The result of generateMove scheduled last is the fallback's: randomMove
\* with the synthetic reasoning.
FallbackScheduled(randomMove) ==
  /\ Len(timers') = Len(timers) + 1
  /\ timers'[Len(timers')].aiMove.move = randomMove
  /\ timers'[Len(timers')].aiMove.fen = randomMove.after
  /\ timers'[Len(timers')].aiMove.reasoning = FallbackReasoning

\* C15: for every response text that is not JSON of the schema's shape,
\* generateMove returns the move the fallback drew from the legal moves.
C15_MalformedResponseFallsBack ==
  [][\A i \in DOMAIN requests, resp \in Responses :
       \A randomMove \in LegalMoves(requests[i].fen) :
         (/\ completion(i, resp, randomMove)
          /\ resp.kind \in {"garbage", "badschema"})
           => FallbackScheduled(randomMove)]_vars

\* C16: for every schema-valid response whose move matches no legal move,
\* generateMove returns the move the fallback drew with the synthetic
\* reasoning, which is what the history entry of the turn will carry.
C16_IllegalModelMoveFallsBack ==
  [][\A i \in DOMAIN requests, resp \in Responses :
       \A randomMove \in LegalMoves(requests[i].fen) :
         (/\ completion(i, resp, randomMove)
          /\ resp.kind = "move"
          /\ EngineMove(requests[i].fen, resp.move.from, resp.move.to,
                        resp.move.promotion) = NoMove)
           => FallbackScheduled(randomMove)]_vars

\* C17: an applied half-move that gives checkmate ends the game with reason
\* checkmate and the side that moved as the result: player after a human
\* move, ai after a model move.
C17_CheckmateResult ==
  [][(/\ last'.op \in {"onDrop: accepted", "applyAIMove"}
      /\ IsCheckmate(gameState'.fen))
       => /\ gameState'.gameStatus = "ended"
          /\ gameState'.resultReason = "checkmate"
          /\ gameState'.result =
               (IF last'.op = "applyAIMove" THEN "ai" ELSE "player")]_vars

\* C17 witness: the human has just mated.
C17_Witness ==
  /\ last.op = "onDrop: accepted"
  /\ IsCheckmate(gameState.fen)
  /\ gameState.result = "player"
  /\ LET e == moveHistory[Len(moveHistory)] IN e.player = "You" /\ e.san = "Qh5#"

\* The times the position has been reached in the game: at the start and
\* after each half-move of the history.
PositionCount(history, fen) ==
  Cardinality({i \in DOMAIN history : history[i].fen = fen})
    + (IF fen = StartFen THEN 1 ELSE 0)

DrawnBy(state, reason) ==
  /\ state.gameStatus = "ended"
  /\ state.result = "draw"
  /\ state.resultReason = reason

\* C18: after an applied half-move whose position is a stalemate, has
\* insufficient material, has been reached for the third time in the game
\* or is a fifty-move draw, the status is ended, the result is draw and the
\* reason names the rule.
C18_DrawsEndTheGame ==
  [][last'.op \in {"onDrop: accepted", "applyAIMove"} =>
       /\ IsStalemate(gameState'.fen) => DrawnBy(gameState', "stalemate")
       /\ IsInsufficientMaterial(gameState'.fen) =>
            DrawnBy(gameState', "insufficient")
       /\ IsDrawByFiftyMoves(gameState'.fen) =>
            DrawnBy(gameState', "fifty-move")
       /\ PositionCount(moveHistory', gameState'.fen) >= 3 =>
            DrawnBy(gameState', "repetition")]_vars

\* C19: a human move is accepted only when the status is playing and it is
\* the player's turn; otherwise a drop changes nothing and handleMove is not
\* called.
C19_DropOnlyOnPlayersTurn ==
  [][/\ last'.op = "onDrop: accepted" =>
          (gameState.gameStatus = "playing" /\ gameState.isPlayerTurn)
     /\ \A d \in Drops :
          (/\ onDrop(d[1], d[2])
           /\ ~(gameState.gameStatus = "playing" /\ gameState.isPlayerTurn))
            => UNCHANGED <<gameState, moveHistory, playerTime, aiTime,
                           isThinking, requests, timers,
                           isApiKeyModalOpen>>]_vars

\* C19 witness: a drop on an ended game was turned away.
C19_Witness ==
  /\ last.op = "onDrop: not the player's turn"
  /\ gameState.gameStatus = "ended"
  /\ gameState.isPlayerTurn

\* C20: a request is issued only by an accepted human move that leaves the
\* status playing, every such move issues one, and the position of the
\* request has legal moves for the fallback to draw from.
C20_NoRequestOnTerminalPosition ==
  [][/\ Len(requests') > Len(requests) =>
          /\ last'.op = "onDrop: accepted"
          /\ gameState'.gameStatus = "playing"
     /\ (last'.op = "onDrop: accepted" /\ gameState'.gameStatus = "playing")
          => /\ requests' = Append(requests, Call(gameState'.fen))
             /\ LegalMoves(gameState'.fen) # {}
     /\ \A i \in DOMAIN requests' :
          /\ LegalMoves(requests'[i].fen) # {}
          /\ checkGameStatus(requests'[i].fen).gameStatus = "playing"]_vars

\* C20 witness: a human move has just issued a request on a position that
\* has legal moves.
C20_Witness ==
  /\ last.op = "onDrop: accepted"
  /\ gameState.gameStatus = "playing"
  /\ Len(requests) = 1
  /\ requests[1].fen = gameState.fen
  /\ LegalMoves(gameState.fen) # {}

\* C21: checkSquare is set exactly when inCheck is true, and then it is the
\* square of the king of the side to move in the current position.
C21_CheckSquareIffInCheck ==
  /\ (gameState.checkSquare # "null") <=> gameState.inCheck
  /\ gameState.checkSquare # "null" =>
       gameState.checkSquare =
         KingSquareOf(gameState.fen, Turn(gameState.fen))

\* C21 witness: the human has given check and the square is that of the
\* black king.
C21_Witness ==
  /\ last.op = "onDrop: accepted"
  /\ gameState.inCheck
  /\ Turn(gameState.fen) = "b"
  /\ gameState.checkSquare = "e8"

\* C22: startGame with a key stored sets the state of a new game whatever
\* the state before: both clocks at their initial value, an empty history,
\* the starting position, the player's turn, status playing, no result, no
\* reason and no check.
C22_StartGameIsFresh ==
  [][(startGame /\ apiKey # <<>>) =>
       /\ gameState' = GS(StartFen, TRUE, "playing", "null", "null", FALSE,
                          "null")
       /\ playerTime' = InitialTime
       /\ aiTime' = InitialTime
       /\ moveHistory' = <<>>]_vars

\* C22 witness: a game was restarted while a request was outstanding, and
\* the clocks are at their initial value.
C22_Witness ==
  /\ last.op = "startGame"
  /\ requests # <<>>
  /\ requests[1].stale
  /\ playerTime = InitialTime
  /\ aiTime = InitialTime

BeginsWithKeyPrefix(key) ==
  /\ Len(key) >= Len(KeyPrefix)
  /\ \A j \in 1 .. Len(KeyPrefix) : key[j] = KeyPrefix[j]

\* C23: the dialog hands a key to onSubmit only when the key typed in is not
\* empty and begins with sk-; otherwise nothing is stored or changed; and
\* every key handed over is itself not empty and begins with sk-.
C23_DialogValidatesKey ==
  [][\A key \in KeyInputs, model \in ModelInputs :
       handleSubmit(key, model) =>
         IF key # <<>> /\ BeginsWithKeyPrefix(key)
           THEN /\ last'.op = "handleSubmit"
                /\ apiKey' # <<>>
                /\ BeginsWithKeyPrefix(apiKey')
                /\ selectedModel' = model
           ELSE /\ last'.op = "handleSubmit: invalid key"
                /\ UNCHANGED <<apiKey, selectedModel, gameState, playerTime,
                               aiTime, moveHistory, requests, timers,
                               isApiKeyModalOpen>>]_vars

\* C23 witness: with a key stored, a key typed in was turned down and the
\* dialog stayed open.
C23_Witness ==
  /\ last.op = "handleSubmit: invalid key"
  /\ apiKey # <<>>
  /\ selectedModel = "gpt-4o"
  /\ isApiKeyModalOpen

\* C24: an accepted human move suspends at most one call, no other step
\* suspends one, and a call that is resumed is gone whatever the answer: it
\* leaves either a move to apply or the error handling of handleMove, never
\* a call.
C24_NoRetry ==
  [][/\ Len(requests') <= Len(requests)
          + (IF last'.op = "onDrop: accepted" THEN 1 ELSE 0)
     /\ last'.op \in {"completion: returned", "completion: threw"} =>
          /\ Len(requests') = Len(requests) - 1
          /\ last'.op = "completion: returned" =>
               Len(timers') = Len(timers) + 1
          /\ last'.op = "completion: threw" =>
               (timers' = timers /\ ~isThinking')]_vars

\* C24 witness: the only call was answered with a failure and the fallback
\* move waits to be applied.
C24_Witness ==
  /\ last.op = "completion: returned"
  /\ requests = <<>>
  /\ Len(timers) = 1
  /\ timers[1].aiMove.reasoning = FallbackReasoning

\* C25: the history handleMove hands to generateMove ends with the human
\* move that has just been applied, the move that led to the position of
\* the call.
C25_ComposerSeesHumanMove ==
  last.op = "onDrop: accepted" =>
    \A k \in DOMAIN last.calls :
      LET history == last.calls[k].history
      IN /\ history # <<>>
         /\ history[Len(history)].player = "You"
         /\ history[Len(history)].fen = last.calls[k].fen

\* C26: the prompt lists the last 7 entries of the history it is given, each
\* with its move number in the game: one more than half its index, counted
\* from 0, in the whole history.
C26_WindowMoveNumbers ==
  last.op \in {"generateMove", "onDrop: accepted"} =>
    \A k \in DOMAIN last.calls :
      LET history == last.calls[k].history
          recentMoves == RecentMoves(history)
          first == Len(history) - Len(recentMoves)
      IN /\ Len(recentMoves) = (IF Len(history) < 7 THEN Len(history) ELSE 7)
         /\ \A index \in 0 .. Len(recentMoves) - 1 :
              /\ recentMoves[index + 1] = history[first + index + 1]
              /\ FormattedMoveNumber(history, index)
                   = ((first + index) \div 2) + 1

\* C27: with at least two entries in the window and at least two of them
\* the human's, the commentary names pawn moves when two or more of the
\* human's moves are pawn moves, else knight development when two or more
\* are knight moves, else bishop development when two or more are bishop
\* moves, else piece development.
C27_TendencyTieBreak ==
  last.op \in {"generateMove", "onDrop: accepted"} =>
    \A k \in DOMAIN last.calls :
      LET recentMoves == RecentMoves(last.calls[k].history)
          humans == {i \in DOMAIN recentMoves : recentMoves[i].player = "You"}
          moved(piece) ==
            Cardinality({i \in humans : recentMoves[i].piece = piece})
      IN (Len(recentMoves) >= 2 /\ Cardinality(humans) >= 2) =>
           Tendency(recentMoves) =
             (IF moved("p") >= 2 THEN "favor pawn moves"
              ELSE IF moved("n") >= 2 THEN "favor knight development"
              ELSE IF moved("b") >= 2 THEN "favor bishop development"
              ELSE "favor piece development")

\* C27 witness: a prompt was composed from a window with two pawn moves and
\* two knight moves of the human, and it names the pawn moves.
C27_Witness ==
  /\ last.op = "generateMove"
  /\ LET recentMoves == RecentMoves(last.calls[1].history)
     IN /\ HumanMovesOf(recentMoves, "p") >= 2
        /\ HumanMovesOf(recentMoves, "n") >= 2
        /\ Len(last.calls[1].history) > Len(recentMoves)
        /\ Tendency(recentMoves) = "favor pawn moves"

\* C28: a key accepted by the dialog is stored with the model; submitted in
\* the waiting state it starts the game: status playing, fresh clocks;
\* submitted in another state it changes nothing but the key and the model.
C28_SubmitWhileWaitingStarts ==
  [][\A key \in KeyInputs, model \in ModelInputs :
       (handleSubmit(key, model) /\ last'.op = "handleSubmit") =>
         /\ apiKey' = Trim(key)
         /\ selectedModel' = model
         /\ IF gameState.gameStatus = "waiting"
              THEN /\ gameState'.gameStatus = "playing"
                   /\ playerTime' = InitialTime
                   /\ aiTime' = InitialTime
              ELSE UNCHANGED <<gameState, playerTime, aiTime, moveHistory,
                               isThinking, requests, timers>>]_vars

\* C29: the entries of the history alternate, the human's first.
C29_MoversAlternate ==
  \A i \in DOMAIN moveHistory :
    moveHistory[i].player = (IF i % 2 = 1 THEN "You" ELSE "AI")

\* C30: the position of the game state is the position recorded in the last
\* entry of the history, or the starting position when the history is empty.
C30_FenMatchesHistory ==
  gameState.fen =
    (IF moveHistory = <<>> THEN StartFen
     ELSE moveHistory[Len(moveHistory)].fen)

\* C30 witness: a move requested before a restart was applied to the new
\* game: its entry is the first of the history, and the position is the one
\* it recorded.
C30_Witness ==
  /\ last.op = "applyAIMove"
  /\ Len(moveHistory) = 1
  /\ moveHistory[1].player = "AI"
  /\ gameState.fen = moveHistory[1].fen
  /\ gameState.fen # StartFen

\* C31: isThinking is false whenever the status is playing and it is the
\* player's turn, and whenever the status is ended or waiting and neither a
\* request nor its delayed application is outstanding.
C31_ThinkingTracksModelTurn ==
  /\ (gameState.gameStatus = "playing" /\ gameState.isPlayerTurn)
       => ~isThinking
  /\ (gameState.gameStatus \in {"ended", "waiting"} /\ Outstanding = 0)
       => ~isThinking

=============================================================================
